---------------------------- MODULE Spec2Model ----------------------------
(***************************************************************************)
(* The Middle-East Tension Index dashboard (src/app.py): the scoring and   *)
(* normalization engine, the cached market-data fetch that feeds it and    *)
(* the Streamlit script that reruns it on every user action.               *)
(*                                                                         *)
(* Numbers.  The program computes in binary floating point; the model      *)
(* computes the same expressions exactly, on fixed-point integers:         *)
(*   - a percentage change is a whole number of percent;                   *)
(*   - the raw market signal is in units of 1/RawScale (timeframe weights  *)
(*     are tenths, instrument weights are hundredths);                     *)
(*   - a score (market_norm, geo_score and the four subscores) is in       *)
(*     units of 1/ScoreScale;                                              *)
(*   - final_index is in units of 1/FinalScale (0.7 and 0.3 are tenths);   *)
(*   - sentiment is a number of slider steps of 0.5.                       *)
(* The one transcendental step, log1p(|raw|*2)/log1p(20), is the base-21   *)
(* logarithm of 1 + 2|raw|; it is computed digit by digit in fixed point   *)
(* and truncated to FracBits binary digits.                                *)
(***************************************************************************)
EXTENDS Integers, Sequences, FiniteSets, TLC

VARIABLES
    assets,             \* module global ASSETS: ticker -> weight, direction
    timeframe_weights,  \* module global TIMEFRAME_WEIGHTS
    carriers,           \* sidebar widget "carriers"
    us_military,        \* sidebar widget "us_military"
    idf_alert,          \* sidebar widget "idf_alert"
    sentiment,          \* sidebar widget "sentiment", in steps of 0.5
    tf,                 \* st.session_state["tf"], Unset when the key is absent
    market,             \* what yf.download returns now: ticker -> timeframe -> download
    cache,              \* st.cache_data of get_all_asset_data: ticker -> (data, price)
    all_data,           \* ticker -> [data, price], as the scoring pass receives it
    market_raw,
    market_norm,
    geo_score,
    final_index,
    level_text,
    subscores,          \* the four (score, max) rows of the Geopolitical Contribution loop
    geo_colors,         \* get_progress_color of each row
    cards,              \* the change shown on each asset card for the selected timeframe
    steps,              \* number of user and environment events so far
    first_run,          \* history: what the session's first run received and scored
    pc

vars == << assets, timeframe_weights, carriers, us_military, idf_alert, sentiment,
           tf, market, cache, all_data, market_raw, market_norm, geo_score,
           final_index, level_text, subscores, geo_colors, cards, steps,
           first_run, pc >>

-----------------------------------------------------------------------------
(* Fixed-point scales *)

RawScale == 10 * 100
ScoreScale == 10 * RawScale
FinalScale == 10 * ScoreScale

\* Resolution of the fixed-point logarithm: operands carry LogOne = 2^11
\* (the largest power of two for which the square of a number below 21 fits
\* in 32 bits), results carry FracBits binary digits.
LogOne == 2 ^ 11
FracBits == 8

Min(a, b) == IF a <= b THEN a ELSE b
Max(a, b) == IF a >= b THEN a ELSE b
Abs(a) == IF a >= 0 THEN a ELSE -a

RECURSIVE SumOver(_, _)
SumOver(f, S) ==
    IF S = {} THEN 0
    ELSE LET x == CHOOSE y \in S : TRUE
         IN  f[x] + SumOver(f, S \ {x})

-----------------------------------------------------------------------------
(* Defaults and registries *)

DEFAULT_CARRIERS == 2
DEFAULT_US_MILITARY == "Extreme"
DEFAULT_IDF_ALERT == "High"
\* 8.5, in slider steps of 0.5
DEFAULT_SENTIMENT == 17

ASSETS ==
    ( "CL=F"    :> [weight |-> 30, direction |-> 1] ) @@
    ( "GC=F"    :> [weight |-> 25, direction |-> 1] ) @@
    ( "BTC-USD" :> [weight |-> 18, direction |-> -1] ) @@
    ( "LMT"     :> [weight |-> 8,  direction |-> 1] ) @@
    ( "RTX"     :> [weight |-> 7,  direction |-> 1] ) @@
    ( "^VIX"    :> [weight |-> 12, direction |-> 1] )

TIMEFRAME_WEIGHTS == ( "1h" :> 1 ) @@ ( "4h" :> 3 ) @@ ( "1d" :> 4 ) @@ ( "1wk" :> 2 )

Tickers == DOMAIN ASSETS
Timeframes == DOMAIN TIMEFRAME_WEIGHTS

-----------------------------------------------------------------------------
(* calculate_market_raw *)

\* dict.get(key, default)
Get(d, key, default) == IF key \in DOMAIN d THEN d[key] ELSE default

EmptyDict == [k \in {} |-> 0]

\* Variant: the signal of the timeframe selected for display alone, read from
\* the session.
calculate_market_raw_selected_tf(data) ==
    LET shown == IF tf = "unset" THEN "1d" ELSE tf
    IN  SumOver([ticker \in DOMAIN assets |->
                    Get(Get(Get(data, ticker, EmptyDict), "data", EmptyDict), shown, 0)
                        * assets[ticker].direction * 10 * assets[ticker].weight],
                DOMAIN assets)

\* Variant: a missing timeframe entry counts as 1.0.
calculate_market_raw_default_one(data) ==
    LET asset_data(ticker) == Get(Get(data, ticker, EmptyDict), "data", EmptyDict)
        weighted(ticker) ==
            SumOver([t \in DOMAIN timeframe_weights |->
                        Get(asset_data(ticker), t, 1) * assets[ticker].direction
                            * timeframe_weights[t]],
                    DOMAIN timeframe_weights)
    IN  SumOver([ticker \in DOMAIN assets |-> weighted(ticker) * assets[ticker].weight],
                DOMAIN assets)

\* In units of 1/RawScale.
calculate_market_raw(data) ==
    LET asset_data(ticker) == Get(Get(data, ticker, EmptyDict), "data", EmptyDict)
        weighted(ticker) ==
            SumOver([t \in DOMAIN timeframe_weights |->
                        Get(asset_data(ticker), t, 0) * assets[ticker].direction
                            * timeframe_weights[t]],
                    DOMAIN timeframe_weights)
    IN  SumOver([ticker \in DOMAIN assets |-> weighted(ticker) * assets[ticker].weight],
                DOMAIN assets)

-----------------------------------------------------------------------------
(* normalize_market *)

\* x as a fixed-point number with LogOne units per 1, for x = n / d, truncated.
ToFixed(n, d) == (n \div d) * LogOne + ((n % d) * LogOne) \div d

\* The number of times y can be divided by 21 before it drops below 21.
RECURSIVE LogInt(_)
LogInt(y) == IF y >= 21 * LogOne THEN 1 + LogInt(y \div 21) ELSE 0

RECURSIVE Reduce(_)
Reduce(y) == IF y >= 21 * LogOne THEN Reduce(y \div 21) ELSE y

\* k binary digits of log_21(y) for 1 <= y < 21: square, and emit a 1 (dividing
\* by 21) whenever the square reaches 21.
RECURSIVE LogFrac(_, _)
LogFrac(y, k) ==
    IF k = 0 THEN 0
    ELSE LET sq == (y * y) \div LogOne
         IN  IF sq >= 21 * LogOne
             THEN 2 ^ (k - 1) + LogFrac(sq \div 21, k - 1)
             ELSE LogFrac(sq, k - 1)

\* log1p(abs(raw) * 2) / log1p(20), in units of 2^-FracBits.
LogRatio(raw) ==
    LET x == ToFixed(RawScale + 2 * Abs(raw), RawScale)
    IN  LogInt(x) * 2 ^ FracBits + LogFrac(Reduce(x), FracBits)

\* Variant: the negative branch without max(0, ...).
normalize_market_no_floor(raw) ==
    IF raw >= 0
    THEN Min(100 * ScoreScale, 25 * ScoreScale + ((raw * ScoreScale) \div (10 * RawScale)) * 75)
    ELSE 25 * ScoreScale - (LogRatio(raw) * 25 * ScoreScale) \div 2 ^ FracBits

\* Variant: the non-negative branch without min(100, ...).
normalize_market_no_cap(raw) ==
    IF raw >= 0
    THEN 25 * ScoreScale + ((raw * ScoreScale) \div (10 * RawScale)) * 75
    ELSE LET decay == (LogRatio(raw) * 25 * ScoreScale) \div 2 ^ FracBits
         IN  Max(0, 25 * ScoreScale - decay)

\* In units of 1/ScoreScale.  ScoreScale = 10 * RawScale makes raw / 10 exact.
normalize_market(raw) ==
    IF raw >= 0
    THEN Min(100 * ScoreScale, 25 * ScoreScale + ((raw * ScoreScale) \div (10 * RawScale)) * 75)
    ELSE LET decay == (LogRatio(raw) * 25 * ScoreScale) \div 2 ^ FracBits
         IN  Max(0, 25 * ScoreScale - decay)

-----------------------------------------------------------------------------
(* calculate_geo_score *)

MilitaryLevels == {"Low", "Moderate", "High", "Extreme", "Unprecedented"}
AlertLevels == {"Low", "Moderate", "High"}

military_map ==
    ( "Low" :> 0 ) @@ ( "Moderate" :> 15 ) @@ ( "High" :> 25 ) @@ ( "Extreme" :> 32 ) @@
    ( "Unprecedented" :> 40 )

idf_map == ( "Low" :> 0 ) @@ ( "Moderate" :> 8 ) @@ ( "High" :> 15 )

\* min(carriers, 4) * 8.75
carrier_score(c) == (Min(c, 4) * 875 * ScoreScale) \div 100

\* Variant: an unrecognized military level counts as 0.
military_score_default_zero(m) == Get(military_map, m, 0) * ScoreScale

military_score(m) == Get(military_map, m, 25) * ScoreScale

idf_score(a) == Get(idf_map, a, 8) * ScoreScale

\* (sentiment / 10) * 10, sentiment in steps of 0.5
sentiment_score(s) == (((s * ScoreScale) \div 2) \div 10) * 10

\* In units of 1/ScoreScale.
calculate_geo_score(c, m, a, s) ==
    carrier_score(c) + military_score(m) + idf_score(a) + sentiment_score(s)

-----------------------------------------------------------------------------
(* final index and level *)

\* Variant: the two weights exchanged.
combine_swapped(m, g) == 3 * m * (FinalScale \div (10 * ScoreScale)) + 7 * g * (FinalScale \div (10 * ScoreScale))

\* 0.7 * market_norm + 0.3 * geo_score, in units of 1/FinalScale
combine(m, g) == 7 * m * (FinalScale \div (10 * ScoreScale)) + 3 * g * (FinalScale \div (10 * ScoreScale))

\* Variant: the bands closed at their upper ends.
level_of_inclusive(f) ==
    IF f <= 30 * FinalScale THEN "Low Tension"
    ELSE IF f <= 60 * FinalScale THEN "Moderate Tension"
    ELSE IF f <= 80 * FinalScale THEN "Elevated Tension"
    ELSE "High Tension"

\* Lines 151-156: the level of final index f.
level_of(f) ==
    IF f < 30 * FinalScale THEN "Low Tension"
    ELSE IF f < 60 * FinalScale THEN "Moderate Tension"
    ELSE IF f < 80 * FinalScale THEN "Elevated Tension"
    ELSE "High Tension"

-----------------------------------------------------------------------------
(* get_progress_color and the Geopolitical Contribution loop *)

\* Variant: the index's cut points 30/60/80 on the value itself.
get_progress_color_index_cuts(value, max_val) ==
    IF value < 30 * ScoreScale THEN "#10b981"
    ELSE IF value < 60 * ScoreScale THEN "#facc15"
    ELSE IF value < 80 * ScoreScale THEN "#fb923c"
    ELSE "#ef4444"

\* value is a score in units of 1/ScoreScale, max_val a positive whole number;
\* norm = value / max_val is compared by cross-multiplication.
get_progress_color(value, max_val) ==
    IF value * 100 < 30 * max_val * ScoreScale THEN "#10b981"
    ELSE IF value * 100 < 60 * max_val * ScoreScale THEN "#facc15"
    ELSE IF value * 100 < 85 * max_val * ScoreScale THEN "#fb923c"
    ELSE "#ef4444"

Factors == {"US Carriers", "US Military", "IDF Alert", "News/Social"}

\* The (score, maxv) columns of the loop's four rows.
contribution_rows(c, m, a, s) ==
    ( "US Carriers" :> [score |-> carrier_score(c), maxv |-> 35] ) @@
    ( "US Military" :> [score |-> military_score(m), maxv |-> 40] ) @@
    ( "IDF Alert"   :> [score |-> idf_score(a), maxv |-> 15] ) @@
    ( "News/Social" :> [score |-> (s * ScoreScale) \div 2, maxv |-> 10] )

contribution_colors(rows) ==
    [f \in DOMAIN rows |-> get_progress_color(rows[f].score, rows[f].maxv)]

-----------------------------------------------------------------------------
(* get_all_asset_data *)

\* What one yf.download call gives: it raises, or it returns a frame of len
\* rows whose Close column holds start_p at iloc[start_idx] (when the frame
\* has that many rows) and end_p at iloc[-1].
Failed == [raises |-> TRUE, len |-> 0, start_p |-> 0, end_p |-> 0]
Frame(l, s, e) == [raises |-> FALSE, len |-> l, start_p |-> s, end_p |-> e]

\* -start_idx of each timeframe
StartIdx == ( "1h" :> 12 ) @@ ( "4h" :> 16 ) @@ ( "1d" :> 24 ) @@ ( "1wk" :> 5 )

\* Iteration order of TIMEFRAME_WEIGHTS
TfOrder == << "1h", "4h", "1d", "1wk" >>

\* ((end_p - start_p) / start_p) * 100.0; whole on the price grids used here.
PctChange(start_p, end_p) == ((end_p - start_p) * 100) \div start_p

\* The locals of get_all_asset_data before the loop; has_end_p is
\* 'end_p' in locals().
FetchStart == [data |-> EmptyDict, current_price |-> 0, has_end_p |-> FALSE, end_p |-> 0]

\* Line 48-49, with the locals as they stand after the try body so far.
TakePrice(st) ==
    IF st.current_price = 0 /\ st.has_end_p
    THEN [st EXCEPT !.current_price = st.end_p]
    ELSE st

\* One iteration of the loop over the timeframes (lines 37-51).
FetchStep(st, t, d) ==
    IF d.raises
    THEN \* yf.download raised: except
         [st EXCEPT !.data = (t :> 0) @@ @]
    ELSE IF d.len < 5
    THEN TakePrice([st EXCEPT !.data = (t :> 0) @@ @])
    ELSE IF d.len < StartIdx[t]
    THEN \* iloc[start_idx] raised IndexError: except
         [st EXCEPT !.data = (t :> 0) @@ @]
    ELSE IF d.start_p = 0
    THEN \* end_p is bound, then the division raised ZeroDivisionError: except
         [st EXCEPT !.data = (t :> 0) @@ @, !.has_end_p = TRUE, !.end_p = d.end_p]
    ELSE TakePrice([st EXCEPT !.data = (t :> PctChange(d.start_p, d.end_p)) @@ @,
                              !.has_end_p = TRUE, !.end_p = d.end_p])

RECURSIVE FetchLoop(_, _, _)
FetchLoop(st, i, dl) ==
    IF i > Len(TfOrder) THEN st
    ELSE FetchLoop(FetchStep(st, TfOrder[i], dl[TfOrder[i]]), i + 1, dl)

\* dl: timeframe -> download, what yf.download gives for this ticker.
get_all_asset_data(dl) ==
    LET st == FetchLoop(FetchStart, 1, dl)
    IN  [data |-> st.data, price |-> st.current_price]

-----------------------------------------------------------------------------
(* The script: one run from top to bottom *)

Unset == "unset"

\* Lines 140-144: get_all_asset_data behind st.cache_data.
Fetched(cch, mkt) ==
    [ticker \in DOMAIN assets |->
        IF ticker \in DOMAIN cch THEN cch[ticker] ELSE get_all_asset_data(mkt[ticker])]

\* Lines 197-201: the change shown on each asset card.
asset_cards(d, t) ==
    LET shown == IF t = Unset THEN "1d" ELSE t
    IN  [ticker \in DOMAIN assets |->
            Get(d[ticker].data, shown, 0) * assets[ticker].direction]

-----------------------------------------------------------------------------
(* The dashboard: the script rerun by every user action *)

\* Events (user actions, market moves, cache expiries) in one session.
MaxSteps == 2

CarrierChoices == 0 .. 4
SentimentChoices == 0 .. 20

\* Downloads the market can answer with, the same for every ticker and
\* timeframe of one market: a failure, a flat week, +5%, -50%, and a frame of
\* 16 rows (too short for the 1d window) at +5%.
DashDownloads ==
    { Failed, Frame(24, 100, 100), Frame(24, 100, 105), Frame(24, 100, 50),
      Frame(16, 100, 105) }

Markets == { [ticker \in Tickers |-> [t \in Timeframes |-> d]] : d \in DashDownloads }

catalog == << assets, timeframe_weights >>
widgets == << carriers, us_military, idf_alert, sentiment >>
outputs == << all_data, market_raw, market_norm, geo_score, final_index, level_text,
              subscores, geo_colors, cards >>

\* One run of the script, lines 140-246, with the widgets at c, m, a, s, the
\* session's timeframe t and the cache cch.
RunScript(c, m, a, s, t, cch) ==
    /\ all_data' = Fetched(cch, market)
    /\ cache' = all_data'
    /\ market_raw' = calculate_market_raw(all_data')
    /\ market_norm' = normalize_market(market_raw')
    /\ geo_score' = calculate_geo_score(c, m, a, s)
    /\ final_index' = combine(market_norm', geo_score')
    /\ level_text' = level_of(final_index')
    /\ cards' = asset_cards(all_data', t)
    /\ subscores' = contribution_rows(c, m, a, s)
    /\ geo_colors' = contribution_colors(subscores')

\* What a run received (the observations and the four inputs) and what it
\* scored (lines 146-156).
Received ==
    [ all_data |-> all_data,
      inputs |-> << carriers, us_military, idf_alert, sentiment >>,
      scores |-> << market_raw, market_norm, geo_score, final_index, level_text >> ]

\* A fresh session: the widgets at their defaults, no "tf" key, an empty
\* cache, and the first run of the script done.
Init ==
    /\ assets = ASSETS
    /\ timeframe_weights = TIMEFRAME_WEIGHTS
    /\ carriers = DEFAULT_CARRIERS
    /\ us_military = DEFAULT_US_MILITARY
    /\ idf_alert = DEFAULT_IDF_ALERT
    /\ sentiment = DEFAULT_SENTIMENT
    /\ tf = Unset
    /\ market \in Markets
    /\ all_data = Fetched(EmptyDict, market)
    /\ cache = all_data
    /\ market_raw = calculate_market_raw(all_data)
    /\ market_norm = normalize_market(market_raw)
    /\ geo_score = calculate_geo_score(carriers, us_military, idf_alert, sentiment)
    /\ final_index = combine(market_norm, geo_score)
    /\ level_text = level_of(final_index)
    /\ cards = asset_cards(all_data, tf)
    /\ subscores = contribution_rows(carriers, us_military, idf_alert, sentiment)
    /\ geo_colors = contribution_colors(subscores)
    /\ steps = 0
    /\ first_run = Received
    /\ pc = "idle"

Event ==
    /\ steps < MaxSteps
    /\ steps' = steps + 1
    /\ UNCHANGED << catalog, first_run, pc >>

SetCarriers(c) ==
    /\ Event
    /\ c # carriers
    /\ carriers' = c
    /\ RunScript(c, us_military, idf_alert, sentiment, tf, cache)
    /\ UNCHANGED << us_military, idf_alert, sentiment, tf, market >>

SetMilitary(m) ==
    /\ Event
    /\ m # us_military
    /\ us_military' = m
    /\ RunScript(carriers, m, idf_alert, sentiment, tf, cache)
    /\ UNCHANGED << carriers, idf_alert, sentiment, tf, market >>

SetAlert(a) ==
    /\ Event
    /\ a # idf_alert
    /\ idf_alert' = a
    /\ RunScript(carriers, us_military, a, sentiment, tf, cache)
    /\ UNCHANGED << carriers, us_military, sentiment, tf, market >>

SetSentiment(s) ==
    /\ Event
    /\ s # sentiment
    /\ sentiment' = s
    /\ RunScript(carriers, us_military, idf_alert, s, tf, cache)
    /\ UNCHANGED << carriers, us_military, idf_alert, tf, market >>

\* A timeframe button: st.session_state.tf = key; st.rerun()
SelectTimeframe(key) ==
    /\ Event
    /\ tf' = key
    /\ RunScript(carriers, us_military, idf_alert, sentiment, key, cache)
    /\ UNCHANGED << widgets, market >>

\* "Refresh Data": st.cache_data.clear(); st.rerun()
Refresh ==
    /\ Event
    /\ RunScript(carriers, us_military, idf_alert, sentiment, tf, EmptyDict)
    /\ UNCHANGED << widgets, tf, market >>

\* "Reset to Current Reality": the five session keys deleted, the cache
\* cleared, the script rerun.
Reset ==
    /\ Event
    /\ carriers' = DEFAULT_CARRIERS
    /\ us_military' = DEFAULT_US_MILITARY
    /\ idf_alert' = DEFAULT_IDF_ALERT
    /\ sentiment' = DEFAULT_SENTIMENT
    /\ tf' = Unset
    /\ RunScript(DEFAULT_CARRIERS, DEFAULT_US_MILITARY, DEFAULT_IDF_ALERT,
                       DEFAULT_SENTIMENT, Unset, EmptyDict)
    /\ UNCHANGED market

\* The market moves: later downloads answer differently.  No script run.
MarketMove(m) ==
    /\ Event
    /\ m # market
    /\ market' = m
    /\ UNCHANGED << widgets, tf, cache, outputs >>

\* ttl=180: one ticker's cache entry expires.  No script run.
Expire(ticker) ==
    /\ Event
    /\ ticker \in DOMAIN cache
    /\ cache' = [k \in DOMAIN cache \ {ticker} |-> cache[k]]
    /\ UNCHANGED << widgets, tf, market, outputs >>

Next ==
    \/ \E c \in CarrierChoices : SetCarriers(c)
    \/ \E m \in MilitaryLevels : SetMilitary(m)
    \/ \E a \in AlertLevels : SetAlert(a)
    \/ \E s \in SentimentChoices : SetSentiment(s)
    \/ \E key \in Timeframes : SelectTimeframe(key)
    \/ Refresh
    \/ Reset
    \/ \E m \in Markets : MarketMove(m)
    \/ \E ticker \in Tickers : Expire(ticker)

Spec == Init /\ [][Next]_vars

-----------------------------------------------------------------------------
(* The functions on their own: the inputs are drawn, then the function is    *)
(* applied.  Variables a specification does not use keep the values below.  *)

DefaultCatalog == assets = ASSETS /\ timeframe_weights = TIMEFRAME_WEIGHTS

DefaultWidgets ==
    /\ carriers = DEFAULT_CARRIERS
    /\ us_military = DEFAULT_US_MILITARY
    /\ idf_alert = DEFAULT_IDF_ALERT
    /\ sentiment = DEFAULT_SENTIMENT

NoSession ==
    /\ tf = Unset /\ market = EmptyDict /\ cache = EmptyDict /\ steps = 0
    /\ first_run = EmptyDict

NoDisplay == subscores = EmptyDict /\ geo_colors = EmptyDict /\ cards = EmptyDict

session == << tf, market, cache, steps, first_run >>
display == << subscores, geo_colors, cards >>

(* normalize_market over a grid of raw signals *)

\* Largest |raw| drawn, in whole units; every multiple of 1/RawScale up to it.
MaxRaw == 12

RawGrid == (-MaxRaw * RawScale) .. (MaxRaw * RawScale)

InitNorm ==
    /\ DefaultCatalog /\ DefaultWidgets /\ NoSession /\ NoDisplay
    /\ all_data = EmptyDict
    /\ market_raw \in RawGrid
    /\ market_norm = 0
    /\ geo_score = 0
    /\ final_index = 0
    /\ level_text = ""
    /\ pc = "start"

Normalize ==
    /\ pc = "start"
    /\ market_norm' = normalize_market(market_raw)
    /\ pc' = "done"
    /\ UNCHANGED << catalog, widgets, session, display, all_data, market_raw, geo_score,
                    final_index, level_text >>

NextNorm == Normalize

SpecNorm == InitNorm /\ [][NextNorm]_vars

(* calculate_geo_score and the contribution rows over in- and out-of-domain inputs *)

\* Carrier counts drawn: MaxExtra below 0 and MaxExtra above 4.
MaxExtra == 2

CarrierInputs == (-MaxExtra) .. (4 + MaxExtra)
UnknownLevels == {"Critical", "low", ""}

InitGeo ==
    /\ DefaultCatalog /\ NoSession /\ NoDisplay
    /\ carriers \in CarrierInputs
    /\ us_military \in MilitaryLevels \cup UnknownLevels
    /\ idf_alert \in AlertLevels \cup UnknownLevels
    /\ sentiment \in SentimentChoices
    /\ all_data = EmptyDict
    /\ market_raw = 0
    /\ market_norm = 0
    /\ geo_score = 0
    /\ final_index = 0
    /\ level_text = ""
    /\ pc = "start"

Score ==
    /\ pc = "start"
    /\ geo_score' = calculate_geo_score(carriers, us_military, idf_alert, sentiment)
    /\ pc' = "scored"
    /\ UNCHANGED << catalog, widgets, session, display, all_data, market_raw, market_norm,
                    final_index, level_text >>

Breakdown ==
    /\ pc = "scored"
    /\ subscores' = contribution_rows(carriers, us_military, idf_alert, sentiment)
    /\ geo_colors' = contribution_colors(subscores')
    /\ pc' = "done"
    /\ UNCHANGED << catalog, widgets, session, cards, all_data, market_raw, market_norm,
                    geo_score, final_index, level_text >>

NextGeo == Score \/ Breakdown

SpecGeo == InitGeo /\ [][NextGeo]_vars

(* The level classification over a grid of final indexes *)

\* Every multiple of 0.05 in [0,100], and the values one unit of 1/FinalScale
\* to either side of each.
LevelGrid ==
    { k * (FinalScale \div 20) + e : k \in 0 .. 2000, e \in {-1, 0, 1} }
        \cap (0 .. 100 * FinalScale)

InitLevel ==
    /\ DefaultCatalog /\ DefaultWidgets /\ NoSession /\ NoDisplay
    /\ all_data = EmptyDict
    /\ market_raw = 0
    /\ market_norm = 0
    /\ geo_score = 0
    /\ final_index \in LevelGrid
    /\ level_text = ""
    /\ pc = "start"

Classify ==
    /\ pc = "start"
    /\ level_text' = level_of(final_index)
    /\ pc' = "done"
    /\ UNCHANGED << catalog, widgets, session, display, all_data, market_raw, market_norm,
                    geo_score, final_index >>

NextLevel == Classify

SpecLevel == InitLevel /\ [][NextLevel]_vars

(* The scoring pass of lines 146-156 over drawn observations and inputs *)

\* Percentage changes drawn: the multiples of ChangeStep up to MaxChange steps
\* either way.
ChangeStep == 50
MaxChange == 2

Changes == { i * ChangeStep : i \in (-MaxChange) .. MaxChange }

FlatData(v) == [t \in Timeframes |-> v]
Entry(data) == [data |-> data, price |-> 100]

\* One ticker moves by v on every timeframe, the others are flat.
Shock(k, v) == [j \in Tickers |-> Entry(FlatData(IF j = k THEN v ELSE 0))]

\* Ticker k has no entry, the others move by v.
Absent(k, v) == [j \in Tickers \ {k} |-> Entry(FlatData(v))]

\* Ticker k has no entry for timeframe t, every other cell moves by v.
Lacking(k, t, v) ==
    [j \in Tickers |->
        Entry(IF j = k THEN [u \in Timeframes \ {t} |-> v] ELSE FlatData(v))]

ObsIndex ==
    { Shock(k, v) : k \in Tickers, v \in Changes }
        \cup { Absent(k, v) : k \in Tickers, v \in Changes }
        \cup { Lacking(k, t, v) : k \in Tickers, t \in Timeframes, v \in Changes }

InitIndex ==
    /\ DefaultCatalog /\ NoSession /\ NoDisplay
    /\ carriers \in CarrierChoices
    /\ us_military \in MilitaryLevels
    /\ idf_alert \in AlertLevels
    /\ sentiment \in SentimentChoices
    /\ all_data \in ObsIndex
    /\ market_raw = 0
    /\ market_norm = 0
    /\ geo_score = 0
    /\ final_index = 0
    /\ level_text = ""
    /\ pc = "start"

Compute ==
    /\ pc = "start"
    /\ market_raw' = calculate_market_raw(all_data)
    /\ market_norm' = normalize_market(market_raw')
    /\ geo_score' = calculate_geo_score(carriers, us_military, idf_alert, sentiment)
    /\ final_index' = combine(market_norm', geo_score')
    /\ level_text' = level_of(final_index')
    /\ pc' = "done"
    /\ UNCHANGED << catalog, widgets, session, display, all_data >>

NextIndex == Compute

SpecIndex == InitIndex /\ [][NextIndex]_vars

(* The flat market under other weight tables *)

\* Instrument weights are ASSETS' weights times a factor up to MaxWeightFactor,
\* with the direction of any subset of instruments flipped; timeframe weights
\* are any tenths up to MaxTfWeight, or TIMEFRAME_WEIGHTS.
MaxWeightFactor == 1
MaxTfWeight == 2

AssetVariants ==
    { [k \in Tickers |->
          [weight |-> ASSETS[k].weight * w,
           direction |-> IF k \in flipped THEN -ASSETS[k].direction
                         ELSE ASSETS[k].direction]]
      : flipped \in SUBSET Tickers, w \in 0 .. MaxWeightFactor }

TfwVariants == [Timeframes -> 0 .. MaxTfWeight] \cup {TIMEFRAME_WEIGHTS}

InitFlat ==
    /\ assets \in AssetVariants
    /\ timeframe_weights \in TfwVariants
    /\ DefaultWidgets /\ NoSession /\ NoDisplay
    /\ all_data = Shock("CL=F", 0)
    /\ market_raw = 0
    /\ market_norm = 0
    /\ geo_score = 0
    /\ final_index = 0
    /\ level_text = ""
    /\ pc = "start"

SpecFlat == InitFlat /\ [][NextIndex]_vars

(* get_all_asset_data and calculate_market_raw over failed and missing data *)

\* Frames of 4 rows (under the len >= 5 guard), 5 rows (enough for 1wk
\* only), 16 rows (too short for 1d) and 24 rows (enough for all).
Lens == {4, 5, 16, 24}
PricePairs == { <<100, 105>>, <<100, 50>>, <<0, 100>> }

DataDownloads == {Failed} \cup { Frame(l, p[1], p[2]) : l \in Lens, p \in PricePairs }

\* An observations map with the tickers of absent missing and, for ticker k,
\* the timeframes of lost missing; every cell present holds v.
Partial(absent, k, lost, v) ==
    [j \in Tickers \ absent |->
        Entry(IF j = k THEN [u \in Timeframes \ lost |-> v] ELSE FlatData(v))]

PartialObs ==
    { Partial(absent, k, lost, v) :
        absent \in SUBSET Tickers, k \in Tickers, lost \in SUBSET Timeframes,
        v \in Changes \ {0} }

\* Either the downloads are drawn and the script fetches them (lines 140-144),
\* or an observations map with entries missing is handed to
\* calculate_market_raw.
InitData ==
    /\ DefaultCatalog /\ DefaultWidgets /\ NoDisplay
    /\ tf = Unset /\ cache = EmptyDict /\ steps = 0 /\ first_run = EmptyDict
    /\ market_raw = 0
    /\ market_norm = 0
    /\ geo_score = 0
    /\ final_index = 0
    /\ level_text = ""
    /\ \/ /\ pc = "start"
          /\ \E dl \in [Timeframes -> DataDownloads] : market = [k \in Tickers |-> dl]
          /\ all_data = EmptyDict
       \/ /\ pc = "fetched"
          /\ market = EmptyDict
          /\ all_data \in PartialObs

FetchAll ==
    /\ pc = "start"
    /\ all_data' = Fetched(cache, market)
    /\ cache' = all_data'
    /\ pc' = "fetched"
    /\ UNCHANGED << catalog, widgets, display, tf, market, steps, first_run, market_raw,
                    market_norm, geo_score, final_index, level_text >>

Aggregate ==
    /\ pc = "fetched"
    /\ market_raw' = calculate_market_raw(all_data)
    /\ pc' = "done"
    /\ UNCHANGED << catalog, widgets, session, display, all_data, market_norm, geo_score,
                    final_index, level_text >>

NextData == FetchAll \/ Aggregate

SpecData == InitData /\ [][NextData]_vars

-----------------------------------------------------------------------------
(* Properties *)

InDomain ==
    /\ carriers \in CarrierChoices
    /\ us_military \in MilitaryLevels
    /\ idf_alert \in AlertLevels
    /\ sentiment \in SentimentChoices

\* C1: for every observations map (entries missing or not) and every in-domain
\* geopolitical input, the final index 0.7 * market_norm + 0.3 * geo_score of
\* the scoring pass lies in [0,100].
C1_FinalIndexInRange ==
    (pc = "done" /\ InDomain) => (0 <= final_index /\ final_index <= 100 * FinalScale)

\* The top of the range is reached, here from a map that lacks an instrument.
C1_Witness ==
    /\ pc = "done"
    /\ InDomain
    /\ DOMAIN all_data # Tickers
    /\ final_index = 100 * FinalScale

\* C2: calculate_geo_score returns a value in [0,100] for every integer carrier
\* count (negative counts and counts above 4 included), every military and
\* alert level value (recognized or not) and every sentiment in [0,10].
C2_GeoScoreClamped ==
    (pc # "start" /\ sentiment \in SentimentChoices)
        => (0 <= geo_score /\ geo_score <= 100 * ScoreScale)

Levels == << "Low Tension", "Moderate Tension", "Elevated Tension", "High Tension" >>

Rank(seq, x) == CHOOSE i \in 1 .. Len(seq) : seq[i] = x

\* C3: every final index in [0,100] gets exactly one of the four levels, by
\* half-open bands: below 30 Low, from 30 to below 60 Moderate, from 60 to
\* below 80 Elevated, from 80 up to 100 High; so exactly 30 is Moderate,
\* exactly 60 Elevated, exactly 80 and exactly 100 High, and the level never
\* decreases as the index grows.
C3_LevelBands ==
    pc = "done" =>
        /\ \E i \in 1 .. 4 : level_text = Levels[i]
        /\ (level_text = "Low Tension") <=> (final_index < 30 * FinalScale)
        /\ (level_text = "Moderate Tension")
               <=> (30 * FinalScale <= final_index /\ final_index < 60 * FinalScale)
        /\ (level_text = "Elevated Tension")
               <=> (60 * FinalScale <= final_index /\ final_index < 80 * FinalScale)
        /\ (level_text = "High Tension")
               <=> (80 * FinalScale <= final_index /\ final_index <= 100 * FinalScale)
        /\ \A g \in { final_index + 1, final_index + FinalScale } :
               g <= 100 * FinalScale => Rank(Levels, level_text) <= Rank(Levels, level_of(g))

\* An index of exactly 30 classified, as Moderate.
C3_Witness ==
    pc = "done" /\ final_index = 30 * FinalScale /\ level_text = "Moderate Tension"

\* C4, as claimed: for every raw < 0 normalize_market(raw) is bounded below by 0
\* and never reaches exactly 0.
C4_NeverZero ==
    (pc = "done" /\ market_raw < 0) => market_norm > 0

\* C4, amended: for every raw < 0 normalize_market(raw) lies in [0,25]; it is
\* above 0 while raw > -10 and it is exactly 0 for every raw <= -10, where the
\* decay term has reached 25 and max(0, ...) returns the floor.
C4_ZeroFromMinusTen ==
    (pc = "done" /\ market_raw < 0) =>
        /\ 0 <= market_norm /\ market_norm <= 25 * ScoreScale
        /\ (market_norm = 0) <=> (market_raw <= -10 * RawScale)

\* The floor returned at raw = -10 and below it.
C4_Witness ==
    pc = "done" /\ market_raw < -10 * RawScale /\ market_norm = 0

\* C5: for every raw >= 0 normalize_market(raw) never decreases as raw grows,
\* is 25 at raw = 0, is min(100, 25 + 7.5 * raw), and is 100 exactly when
\* raw >= 10.
C5_UpperBranch ==
    (pc = "done" /\ market_raw >= 0) =>
        /\ 2 * market_norm
               = Min(200 * ScoreScale,
                     50 * ScoreScale + 15 * market_raw * (ScoreScale \div RawScale))
        /\ (market_raw = 0) => (market_norm = 25 * ScoreScale)
        /\ (market_norm = 100 * ScoreScale) <=> (market_raw >= 10 * RawScale)
        /\ market_norm <= normalize_market(market_raw + 1)
        /\ market_norm <= normalize_market(market_raw + RawScale)

\* Saturation beyond raw = 10.
C5_Witness ==
    pc = "done" /\ market_raw > 10 * RawScale /\ market_norm = 100 * ScoreScale

data_of(d, ticker) == Get(Get(d, ticker, EmptyDict), "data", EmptyDict)

\* d with every missing instrument and timeframe entry set to 0.0.
Fill0(d) ==
    [ticker \in Tickers |->
        [data |-> [t \in Timeframes |-> Get(data_of(d, ticker), t, 0)],
         price |-> Get(Get(d, ticker, EmptyDict), "price", 0)]]

\* The download gave no usable window for timeframe t.
NoData(dl, t) == dl.raises \/ dl.len < 5 \/ dl.len < StartIdx[t]

\* C6: a missing or failed observation never aborts the computation and counts
\* as a 0.0 change: get_all_asset_data returns an entry for each of the four
\* timeframes, 0.0 where the fetch failed or had too little data, and
\* calculate_market_raw returns for a map with missing instruments or
\* timeframe entries what it returns with those entries set to 0.0.
C6_MissingIsNeutral ==
    /\ (pc # "start" /\ DOMAIN market # {}) =>
           \A ticker \in Tickers :
               /\ ticker \in DOMAIN all_data
               /\ DOMAIN all_data[ticker].data = Timeframes
               /\ \A t \in Timeframes :
                      NoData(market[ticker][t], t) => all_data[ticker].data[t] = 0
    /\ pc = "done" => market_raw = calculate_market_raw(Fill0(all_data))

\* A map lacking instruments and timeframe entries, aggregated to a signal
\* other than 0.
C6_Witness ==
    /\ pc = "done"
    /\ DOMAIN all_data # Tickers
    /\ \E ticker \in DOMAIN all_data : DOMAIN all_data[ticker].data # Timeframes
    /\ market_raw # 0

\* The military and alert subscores as the claim tabulates them.
TableMilitary(m) ==
    CASE m = "Low" -> 0 [] m = "Moderate" -> 15 [] m = "High" -> 25
      [] m = "Extreme" -> 32 [] m = "Unprecedented" -> 40 [] OTHER -> 25

TableAlert(a) ==
    CASE a = "Low" -> 0 [] a = "Moderate" -> 8 [] a = "High" -> 15 [] OTHER -> 8

\* C7: calculate_geo_score never fails on an unrecognized level: a military
\* level outside the five contributes 25, an alert level outside the three
\* contributes 8, recognized levels contribute 0/15/25/32/40 and 0/8/15, and
\* the carrier and sentiment subscores are what they are for any level.
C7_LevelDefaults ==
    pc # "start" =>
        100 * geo_score
            = Min(carriers, 4) * 875 * ScoreScale
                + 100 * ScoreScale * (TableMilitary(us_military) + TableAlert(idf_alert))
                + 50 * ScoreScale * sentiment

\* Both levels unrecognized, scored.
C7_Witness ==
    /\ pc # "start"
    /\ us_military \notin MilitaryLevels
    /\ idf_alert \notin AlertLevels
    /\ geo_score = (33 * ScoreScale) + carrier_score(carriers) + sentiment_score(sentiment)

\* C8: the scoring pass carries no hidden state: a run of the script that
\* receives the observations and geopolitical inputs of the run before it, or
\* of the session's first run (whatever timeframe was selected, whatever was
\* refreshed, reset or expired in between), produces the same market score,
\* geopolitical score, final index and level.
C8_NoHiddenState ==
    /\ [][ (all_data' = all_data /\ widgets' = widgets)
               => /\ market_raw' = market_raw
                  /\ market_norm' = market_norm
                  /\ geo_score' = geo_score
                  /\ final_index' = final_index
                  /\ level_text' = level_text ]_vars
    /\ [] ( (Received.all_data = first_run.all_data /\ Received.inputs = first_run.inputs)
               => Received.scores = first_run.scores )

\* A second timeframe selected: the cards show the 4h change, which differs
\* from the 1d change, over the same observations.
C8_Witness ==
    /\ steps = 2
    /\ tf = "4h"
    /\ cards["CL=F"] # 0
    /\ all_data["CL=F"].data["1d"] = 0
    /\ market_raw # 0

\* C9: for a flat market the raw signal is 0 and the market score 25 whatever
\* the instrument and timeframe weights; with the default geopolitical inputs
\* the geopolitical score is 73.0, the final index 39.4, the level Moderate.
C9_FlatMarketDefaults ==
    (pc = "done" /\ carriers = 2 /\ us_military = "Extreme" /\ idf_alert = "High"
        /\ sentiment = 17) =>
        /\ market_raw = 0
        /\ market_norm = 25 * ScoreScale
        /\ geo_score = 73 * ScoreScale
        /\ 10 * final_index = 394 * FinalScale
        /\ level_text = "Moderate Tension"

\* The flat market scored under weights other than the program's.
C9_Witness ==
    /\ pc = "done"
    /\ assets # ASSETS
    /\ timeframe_weights # TIMEFRAME_WEIGHTS
    /\ \E t \in Timeframes : timeframe_weights[t] # 0
    /\ \E k \in Tickers : assets[k].weight # 0
    /\ 10 * final_index = 394 * FinalScale

Bands == << "#10b981", "#facc15", "#fb923c", "#ef4444" >>

\* Band A, B, C or D (1..4) of value against max_val, by the ratio's cut
\* points 0.3, 0.6, 0.85.
BandOf(value, max_val) ==
    IF 100 * value < 30 * max_val * ScoreScale THEN 1
    ELSE IF 100 * value < 60 * max_val * ScoreScale THEN 2
    ELSE IF 100 * value < 85 * max_val * ScoreScale THEN 3
    ELSE 4

MaxOf == ( "US Carriers" :> 35 ) @@ ( "US Military" :> 40 ) @@ ( "IDF Alert" :> 15 ) @@
         ( "News/Social" :> 10 )

\* C10: each of the four geopolitical subscores is banded by value / max_val
\* (carriers against 35, military against 40, alert against 15, sentiment
\* against 10) with cut points 0.3, 0.6, 0.85, not the index's 30/60/80:
\* exactly one band each, never a lower band for a higher subscore.
C10_RatioBands ==
    (pc = "done" /\ InDomain) =>
        \A f \in Factors :
            /\ subscores[f].maxv = MaxOf[f]
            /\ geo_colors[f] = Bands[BandOf(subscores[f].score, MaxOf[f])]
            /\ Rank(Bands, geo_colors[f])
                   <= Rank(Bands, get_progress_color(subscores[f].score + ScoreScale \div 2,
                                                      MaxOf[f]))

\* Military at Extreme: 32 of 40 is 0.8, band C (the index's cut points would
\* put 32 in the second band); sentiment 8.5 of 10 sits on the 0.85 cut, band D.
C10_Witness ==
    /\ pc = "done"
    /\ InDomain
    /\ us_military = "Extreme"
    /\ geo_colors["US Military"] = "#fb923c"
    /\ sentiment = 17
    /\ geo_colors["News/Social"] = "#ef4444"

=============================================================================
